---- MODULE Spec2Model ----
(***************************************************************************)
(* A model of the search-and-consistency core of zep:                      *)
(*   - UserStoreDAO.Update, the lock-scoped read-merge-write of a user's   *)
(*     metadata document (specifications Spec and SpecMerge);              *)
(*   - the two search entry points, searchMessages and                     *)
(*     documentSearchOperation.Execute (specification SpecSearch);         *)
(*   - parseJSONQuery, the metadata filter compiler, and the filtered      *)
(*     message search built on it (SpecQuery);                             *)
(*   - the MMR reranker (SpecMMR);                                         *)
(*   - UpdateMessageMetadataHandler and GetMessageHandler (SpecHandler);   *)
(*   - UserStoreDAO.ListAll, the cursor listing (SpecList), and            *)
(*     SummaryDAO.GetList, the offset listing (SpecOffset).                *)
(***************************************************************************)
EXTENDS Integers, Sequences, FiniteSets, TLC

(***************************************************************************)
(* Bounds of the model.                                                    *)
(***************************************************************************)
NumProcs == 2

MaxChildren == 2

MaxCandidates == 3

MaxID == 5

MaxLimit == 3

MaxSummaries == 9

MixedRows == 4

MaxPage == 3

MaxPageSize == 5

MaxCalls == 2

Procs == 1..NumProcs

(***************************************************************************)
(* Metadata documents.  A document maps every key of Keys to a value; a    *)
(* key the document does not hold maps to Absent.  A value is null, a      *)
(* number or a nested object, whose own values are null or numbers.        *)
(***************************************************************************)
Keys == {"a", "b", "c"}

InnerAbsent == [t |-> "absent", n |-> 0]

NoObj == [k \in Keys |-> InnerAbsent]

Absent == [t |-> "absent", n |-> 0, o |-> NoObj]

Null == [t |-> "null", n |-> 0, o |-> NoObj]

Num(i) == [t |-> "num", n |-> i, o |-> NoObj]

Obj(f) == [t |-> "obj", n |-> 0, o |-> f]

InnerNull == [t |-> "null", n |-> 0]

InnerNum(i) == [t |-> "num", n |-> i]

\* the document {a: x, b: y, c: z}
Doc3(x, y, z) == [k \in Keys |-> IF k = "a" THEN x ELSE IF k = "b" THEN y ELSE z]

\* the nested object {a: x, b: y}
Inner2(x, y) == [k \in Keys |-> IF k = "a" THEN x ELSE IF k = "b" THEN y ELSE InnerAbsent]

EmptyDoc == [k \in Keys |-> Absent]

\* a request's Metadata field: a nil map, or a map
NilMetadata == [nil |-> TRUE, doc |-> EmptyDoc]

Meta(d) == [nil |-> FALSE, doc |-> d]

(***************************************************************************)
(* The store: the users table and the advisory locks.                      *)
(***************************************************************************)
UserIDs == {"u1", "u2", "ghost"}

\* the lock key of an entity: a hash of its natural identifier
hashKey(userID) ==
    CASE userID = "u1" -> 1
      [] userID = "u2" -> 2
      [] OTHER -> 3

LockIDs == {hashKey(u) : u \in UserIDs}

NoProc == 0

VARIABLES
    users,      \* the users table: UserID -> row
    lock,       \* the advisory locks: lock id -> the call holding it, or NoProc
    pc,         \* each Update call's position
    call,       \* each Update call's arguments, as passed
    user,       \* each call's *UpdateUserRequest, which Update assigns to
    ctx,        \* each call's context: "live" or "canceled"
    lockID,     \* each call's lock token, 0 before acquisition
    released,   \* what each call's deferred release did: "none", "released", "failed"
    result,     \* what each call returned
    spc,        \* the search call's position
    sq,         \* the search call's arguments
    slimit,     \* the search call's limit, once defaulted
    dbQuery,    \* the select query the search call builds
    serr,       \* the search call's err variable
    sio,        \* the I/O the search call has done, in order
    sres,       \* what the search call returned
    srows,      \* the rows the search call holds (its results slice)
    sfetched,   \* the rows the search call's scan brought back
    jq,         \* the filter tree handed to parseJSONQuery
    qb,         \* the where clauses of the query builder
    qpc,        \* the filtered search's position
    qsession,   \* the sessionID of the filtered search
    qres,       \* what the filtered search returned, and whether it fetched
    hpc,        \* the HTTP handler's position
    hreq,       \* the HTTP request: the handler it is routed to and its body
    hmsg,       \* the stored message the request names: its metadata, or "none"
    hupd,       \* the error UpdateMessages returned to the handler ("" for nil)
    hget,       \* the error GetMessagesByUUID returned to the handler
    hresp,      \* the HTTP response: its status and the message it carries
    mpc,        \* the reranker's position
    mcand,      \* the candidates handed to the reranker, in fetch order
    mparam,     \* the reranker's limit and lambda
    msel,       \* the candidates selected so far (indices into mcand)
    lpc,        \* the cursor listing's position
    ltable,     \* the ids of the users table
    lcursor,    \* the cursor of the next ListAll call
    llimit,     \* the limit of the ListAll calls
    lpages,     \* the pages ListAll has returned, in order
    lerr,       \* the error of the last ListAll call ("" for nil)
    opc,        \* the offset listing's position
    otable,     \* the summaries table
    oreq,       \* the page size and the page numbers of the GetList calls made
    ores        \* what each GetList call returned

updVars == <<users, lock, pc, call, user, ctx, lockID, released, result>>

searchVars == <<spc, sq, slimit, dbQuery, serr, sio, sres, srows, sfetched>>

queryVars == <<jq, qb, qpc, qsession, qres>>

handlerVars == <<hpc, hreq, hmsg, hupd, hget, hresp>>

mmrVars == <<mpc, mcand, mparam, msel>>

listVars == <<lpc, ltable, lcursor, llimit, lpages, lerr>>

offsetVars == <<opc, otable, oreq, ores>>

auxVars == <<handlerVars, mmrVars, listVars, offsetVars>>

vars == <<updVars, searchVars, queryVars, auxVars>>

(***************************************************************************)
(* mergeMetadata's deep merge: an update value that is empty (null, zero,  *)
(* an object without keys) does not erase a non-empty existing value       *)
(* unless the caller is privileged; two objects merge key by key by the    *)
(* same rule; any other update value replaces or is inserted.              *)
(***************************************************************************)
isEmptyInner(v) == v.t = "null" \/ (v.t = "num" /\ v.n = 0)

isEmptyValue(v) ==
    \/ v.t = "null"
    \/ v.t = "num" /\ v.n = 0
    \/ v.t = "obj" /\ \A k \in Keys : v.o[k].t = "absent"

mergeInner(e, u, isPrivileged) ==
    IF u.t = "absent" THEN e
    ELSE IF e.t # "absent" /\ ~isEmptyInner(e) /\ isEmptyInner(u)
         THEN (IF isPrivileged THEN u ELSE e)
    ELSE u

mergeValue(e, u, isPrivileged) ==
    IF u.t = "absent" THEN e
    ELSE IF e.t # "absent" /\ ~isEmptyValue(e) /\ isEmptyValue(u)
         THEN (IF isPrivileged THEN u ELSE e)
    ELSE IF e.t = "obj" /\ u.t = "obj"
         THEN Obj([k \in Keys |-> mergeInner(e.o[k], u.o[k], isPrivileged)])
    ELSE u

deepMerge(existing, update, isPrivileged) ==
    [k \in Keys |-> mergeValue(existing[k], update[k], isPrivileged)]

(***************************************************************************)
(* The advisory lock primitive of the store: acquire by key, release by    *)
(* token.  Acquisition waits while another call holds the lock.            *)
(***************************************************************************)
lockIsFree(id) == lock[id] = NoProc

acquireAdvisoryLock(id, p) == [lock EXCEPT ![id] = p]

releaseAdvisoryLock(id) == [lock EXCEPT ![id] = NoProc]

(***************************************************************************)
(* UserStoreDAO.Update, one call per process.                              *)
(***************************************************************************)
\* whether the call went through the advisory lock (its defer is registered)
deferred(p) == lockID[p] # 0

\* the position a call moves to when the function body returns
afterBody(p) == IF deferred(p) THEN "release" ELSE "done"

\* UPDATE users SET <the non-zero columns> WHERE user_id = ? (OmitZero)
omitZeroUpdate(row, u) ==
    [row EXCEPT !.Email = IF u.Email # "" THEN u.Email ELSE @,
                !.FirstName = IF u.FirstName # "" THEN u.FirstName ELSE @,
                !.LastName = IF u.LastName # "" THEN u.LastName ELSE @,
                !.Metadata = IF ~u.Metadata.nil THEN u.Metadata.doc ELSE @]

\* Update's entry: the UserID check and the choice of the cheap path
UpdateStart(p) ==
    /\ pc[p] = "start"
    /\ IF user[p].UserID = ""
       THEN /\ pc' = [pc EXCEPT ![p] = "done"]
            /\ result' = [result EXCEPT ![p] = "EmptyUserID"]
       ELSE /\ pc' = [pc EXCEPT ![p] =
                        IF user[p].Metadata.nil THEN "write" ELSE "acquire"]
            /\ UNCHANGED result
    /\ UNCHANGED <<users, lock, call, user, ctx, lockID, released, searchVars, queryVars, auxVars>>

\* the lock is never asked for: the call goes on without it
UpdateAcquireNoLock(p) ==
    /\ pc[p] = "acquire"
    /\ pc' = [pc EXCEPT ![p] = "merge"]
    /\ UNCHANGED <<users, lock, call, user, ctx, lockID, released, result, searchVars, queryVars, auxVars>>

\* acquisition fails, and the call goes on to merge and write all the same
UpdateAcquireIgnoreError(p) ==
    /\ pc[p] = "acquire"
    /\ IF ctx[p] = "canceled"
       THEN /\ pc' = [pc EXCEPT ![p] = "merge"]
            /\ UNCHANGED <<lock, lockID>>
       ELSE \/ /\ pc' = [pc EXCEPT ![p] = "merge"]
               /\ UNCHANGED <<lock, lockID>>
            \/ /\ lockIsFree(hashKey(user[p].UserID))
               /\ lock' = acquireAdvisoryLock(hashKey(user[p].UserID), p)
               /\ lockID' = [lockID EXCEPT ![p] = hashKey(user[p].UserID)]
               /\ pc' = [pc EXCEPT ![p] = "merge"]
    /\ UNCHANGED <<users, call, user, ctx, released, result, searchVars, queryVars, auxVars>>

\* acquireAdvisoryLock(ctx, dao.db, user.UserID): on an error the call
\* returns it; otherwise the release is deferred and the call holds the lock
UpdateAcquire(p) ==
    /\ pc[p] = "acquire"
    /\ IF ctx[p] = "canceled"
       THEN /\ pc' = [pc EXCEPT ![p] = "done"]
            /\ result' = [result EXCEPT ![p] = "Canceled"]
            /\ UNCHANGED <<lock, lockID>>
       ELSE \/ /\ pc' = [pc EXCEPT ![p] = "done"]
               /\ result' = [result EXCEPT ![p] = "Unavailable"]
               /\ UNCHANGED <<lock, lockID>>
            \/ /\ lockIsFree(hashKey(user[p].UserID))
               /\ lock' = acquireAdvisoryLock(hashKey(user[p].UserID), p)
               /\ lockID' = [lockID EXCEPT ![p] = hashKey(user[p].UserID)]
               /\ pc' = [pc EXCEPT ![p] = "merge"]
               /\ UNCHANGED result
    /\ UNCHANGED <<users, call, user, ctx, released, searchVars, queryVars, auxVars>>

\* the merged document is computed and dropped: the update is written as is
UpdateMergeNoAssign(p) ==
    /\ pc[p] = "merge"
    /\ IF ctx[p] = "canceled"
       THEN /\ pc' = [pc EXCEPT ![p] = afterBody(p)]
            /\ result' = [result EXCEPT ![p] = "Canceled"]
       ELSE IF ~users[user[p].UserID].exists
       THEN /\ pc' = [pc EXCEPT ![p] = afterBody(p)]
            /\ result' = [result EXCEPT ![p] = "NotFound"]
       ELSE /\ pc' = [pc EXCEPT ![p] = "write"]
            /\ UNCHANGED result
    /\ UNCHANGED <<users, lock, call, user, ctx, lockID, released, searchVars, queryVars, auxVars>>

\* mergeMetadata(...): reads the stored document and merges the update into
\* it; user.Metadata = mergedMetadata
UpdateMerge(p) ==
    /\ pc[p] = "merge"
    /\ IF ctx[p] = "canceled"
       THEN /\ pc' = [pc EXCEPT ![p] = afterBody(p)]
            /\ result' = [result EXCEPT ![p] = "Canceled"]
            /\ UNCHANGED user
       ELSE IF ~users[user[p].UserID].exists
       THEN /\ pc' = [pc EXCEPT ![p] = afterBody(p)]
            /\ result' = [result EXCEPT ![p] = "NotFound"]
            /\ UNCHANGED user
       ELSE /\ user' = [user EXCEPT ![p].Metadata =
                          Meta(deepMerge(users[user[p].UserID].Metadata,
                                         user[p].Metadata.doc,
                                         call[p].isPrivileged))]
            /\ pc' = [pc EXCEPT ![p] = "write"]
            /\ UNCHANGED result
    /\ UNCHANGED <<users, lock, call, ctx, lockID, released, searchVars, queryVars, auxVars>>

\* the UPDATE writes every column, zero or not
updateUserExecAllColumns(p) ==
    /\ pc[p] = "write"
    /\ IF ctx[p] = "canceled"
       THEN /\ pc' = [pc EXCEPT ![p] = afterBody(p)]
            /\ result' = [result EXCEPT ![p] = "Canceled"]
            /\ UNCHANGED users
       ELSE IF ~users[user[p].UserID].exists
       THEN /\ pc' = [pc EXCEPT ![p] = afterBody(p)]
            /\ result' = [result EXCEPT ![p] = "NotFound"]
            /\ UNCHANGED users
       ELSE /\ users' = [users EXCEPT ![user[p].UserID] =
                           [@ EXCEPT !.Email = user[p].Email,
                                     !.FirstName = user[p].FirstName,
                                     !.LastName = user[p].LastName,
                                     !.Metadata = user[p].Metadata.doc]]
            /\ pc' = [pc EXCEPT ![p] = "get"]
            /\ UNCHANGED result
    /\ UNCHANGED <<lock, call, user, ctx, lockID, released, searchVars, queryVars, auxVars>>

\* the UPDATE turns into an upsert: a missing row is created
updateUserExecUpsert(p) ==
    /\ pc[p] = "write"
    /\ IF ctx[p] = "canceled"
       THEN /\ pc' = [pc EXCEPT ![p] = afterBody(p)]
            /\ result' = [result EXCEPT ![p] = "Canceled"]
            /\ UNCHANGED users
       ELSE /\ users' = [users EXCEPT ![user[p].UserID] =
                           [omitZeroUpdate(@, user[p]) EXCEPT !.exists = TRUE]]
            /\ pc' = [pc EXCEPT ![p] = "get"]
            /\ UNCHANGED result
    /\ UNCHANGED <<lock, call, user, ctx, lockID, released, searchVars, queryVars, auxVars>>

\* updateUser, up to the rowsAffected check: the UPDATE with OmitZero
updateUserExec(p) ==
    /\ pc[p] = "write"
    /\ IF ctx[p] = "canceled"
       THEN /\ pc' = [pc EXCEPT ![p] = afterBody(p)]
            /\ result' = [result EXCEPT ![p] = "Canceled"]
            /\ UNCHANGED users
       ELSE IF ~users[user[p].UserID].exists
       THEN /\ pc' = [pc EXCEPT ![p] = afterBody(p)]
            /\ result' = [result EXCEPT ![p] = "NotFound"]
            /\ UNCHANGED users
       ELSE /\ users' = [users EXCEPT ![user[p].UserID] =
                           omitZeroUpdate(@, user[p])]
            /\ pc' = [pc EXCEPT ![p] = "get"]
            /\ UNCHANGED result
    /\ UNCHANGED <<lock, call, user, ctx, lockID, released, searchVars, queryVars, auxVars>>

\* updateUser, the rest: dao.Get reads the updated row back
updateUserGet(p) ==
    /\ pc[p] = "get"
    /\ pc' = [pc EXCEPT ![p] = afterBody(p)]
    /\ result' = [result EXCEPT ![p] =
                    IF ctx[p] = "canceled" THEN "Canceled"
                    ELSE IF ~users[user[p].UserID].exists THEN "NotFound"
                    ELSE "ok"]
    /\ UNCHANGED <<users, lock, call, user, ctx, lockID, released, searchVars, queryVars, auxVars>>

\* the deferred releaseAdvisoryLock(ctx, db, lockID), run with the call's
\* own context: an error is logged and the call returns
UpdateRelease(p) ==
    /\ pc[p] = "release"
    /\ pc' = [pc EXCEPT ![p] = "done"]
    /\ IF ctx[p] = "canceled"
       THEN /\ released' = [released EXCEPT ![p] = "failed"]
            /\ UNCHANGED lock
       ELSE /\ released' = [released EXCEPT ![p] = "released"]
            /\ lock' = releaseAdvisoryLock(lockID[p])
    /\ UNCHANGED <<users, call, user, ctx, lockID, result, searchVars, queryVars, auxVars>>

\* the caller cancels the context of a call in flight
Cancel(p) ==
    /\ pc[p] # "done"
    /\ ctx[p] = "live"
    /\ ctx' = [ctx EXCEPT ![p] = "canceled"]
    /\ UNCHANGED <<users, lock, pc, call, user, lockID, released, result, searchVars, queryVars, auxVars>>

(***************************************************************************)
(* The search calls: their arguments, the query they build, their result.  *)
(***************************************************************************)
defaultSearchLimit == 10

DefaultDocumentSearchLimit == 20

\* a search call: searchMessages(sessionID, query, limit) or
\* newDocumentSearchOperation(searchPayload, collection, limit, withMMR)
Search(kind, text, meta, limit, mmr, indexed) ==
    [kind |-> kind, text |-> text, hasMetadata |-> meta, limit |-> limit,
     withMMR |-> mmr, isIndexed |-> indexed]

NoSearch == Search("none", "", FALSE, 0, FALSE, FALSE)

\* a *bun.SelectQuery: nil, or the columns, filter, order and limit set on it
Query(nil, dist, filter, order, limit) ==
    [nil |-> nil, dist |-> dist, filter |-> filter, order |-> order,
     limit |-> limit]

NoQuery == Query(TRUE, "", FALSE, "", 0)

\* a call's return value: the error ("" for nil) and the number of results
Result(returned, err, count) == [returned |-> returned, err |-> err, count |-> count]

NoResult == Result(FALSE, "", 0)

\* one I/O call: to the embedding provider or to the store
IO(op, arg) == [op |-> op, arg |-> arg, on |-> "none"]

\* a statement sent to the store through a handle: "db" is the connection
\* pool (*bun.DB), "tx" the connection of the open transaction (bun.Tx)
Stmt(op, arg, on) == [op |-> op, arg |-> arg, on |-> on]

(***************************************************************************)
(* The calls the processes make, and the rows the table starts with.       *)
(***************************************************************************)
Req(id, email, first, last, m) ==
    [UserID |-> id, Email |-> email, FirstName |-> first, LastName |-> last,
     Metadata |-> m]

Call(u, priv) == [user |-> u, isPrivileged |-> priv]

\* updates with a nil Metadata; each supplies at least one column
DirectCalls ==
    { Call(Req("u1", "", "bob", "smith", NilMetadata), FALSE),
      Call(Req("ghost", "e2", "", "", NilMetadata), FALSE),
      Call(Req("", "e2", "", "", NilMetadata), FALSE) }

MergeCalls ==
    { Call(Req("u1", "", "", "", Meta(Doc3(Num(1), Absent, Absent))), FALSE),
      Call(Req("u1", "e3", "", "", Meta(Doc3(Absent, Num(2), Absent))), FALSE),
      Call(Req("u2", "", "", "", Meta(Doc3(Num(1), Absent, Absent))), FALSE),
      Call(Req("ghost", "", "", "", Meta(Doc3(Num(1), Absent, Absent))), FALSE) }

Calls == DirectCalls \cup MergeCalls

Row(email, first, last, d) ==
    [exists |-> TRUE, Email |-> email, FirstName |-> first, LastName |-> last,
     Metadata |-> d]

NoRow ==
    [exists |-> FALSE, Email |-> "", FirstName |-> "", LastName |-> "",
     Metadata |-> EmptyDoc]

\* the table: u1 and u2 exist, ghost does not
Table(d) ==
    [u \in UserIDs |->
        IF u = "u1" THEN Row("email", "", "", d)
        ELSE IF u = "u2" THEN Row("e-two", "ann", "", Doc3(Absent, Num(2), Absent))
        ELSE NoRow]

InitDocs == { EmptyDoc, Doc3(Absent, Absent, Num(3)) }

\* the search call and the filter compilation at rest
SearchIdle ==
    /\ spc = "idle"
    /\ sq = NoSearch
    /\ slimit = 0
    /\ dbQuery = NoQuery
    /\ serr = ""
    /\ sio = <<>>
    /\ sres = NoResult
    /\ srows = <<>>
    /\ sfetched = <<>>

\* the outcome of a filtered search: whether the store was sent the fetch,
\* whether the call returned, its error ("" for nil) and its rows
Outcome(fetched, returned, err, rows) ==
    [fetched |-> fetched, returned |-> returned, err |-> err, rows |-> rows]

NoOutcome == Outcome(FALSE, FALSE, "", {})

QueryIdle ==
    /\ jq = <<>>
    /\ qb = <<>>
    /\ qpc = "idle"
    /\ qsession = ""
    /\ qres = NoOutcome

\* an HTTP request: the handler it is routed to, whether its body decodes,
\* and the metadata of the message in the body
Request(handler, decodes, metadata) ==
    [handler |-> handler, decodes |-> decodes, metadata |-> metadata]

\* an HTTP response: the status, and the metadata of the message it carries
Response(status, metadata) == [status |-> status, metadata |-> metadata]

HandlerIdle ==
    /\ hpc = "idle"
    /\ hreq = Request("none", FALSE, "")
    /\ hmsg = "none"
    /\ hupd = ""
    /\ hget = ""
    /\ hresp = Response(0, "")

MMRIdle ==
    /\ mpc = "idle"
    /\ mcand = <<>>
    /\ mparam = [limit |-> 0, lambda |-> 0]
    /\ msel = <<>>

ListIdle ==
    /\ lpc = "idle"
    /\ ltable = {}
    /\ lcursor = 0
    /\ llimit = 0
    /\ lpages = <<>>
    /\ lerr = ""

OffsetIdle ==
    /\ opc = "idle"
    /\ otable = {}
    /\ oreq = [pageSize |-> 0, pages |-> <<>>]
    /\ ores = <<>>

\* the handlers, the reranker and the listings at rest
AuxIdle == HandlerIdle /\ MMRIdle /\ ListIdle /\ OffsetIdle

Init ==
    /\ \E d \in InitDocs : users = Table(d)
    /\ lock = [id \in LockIDs |-> NoProc]
    /\ pc = [p \in Procs |-> "start"]
    /\ call \in [Procs -> Calls]
    /\ user = [p \in Procs |-> call[p].user]
    /\ ctx = [p \in Procs |-> "live"]
    /\ lockID = [p \in Procs |-> 0]
    /\ released = [p \in Procs |-> "none"]
    /\ result = [p \in Procs |-> "none"]
    /\ SearchIdle
    /\ QueryIdle
    /\ AuxIdle

Next ==
    \E p \in Procs :
        \/ UpdateStart(p)
        \/ UpdateAcquire(p)
        \/ UpdateMerge(p)
        \/ updateUserExec(p)
        \/ updateUserGet(p)
        \/ UpdateRelease(p)
        \/ Cancel(p)

Spec == Init /\ [][Next]_vars

(***************************************************************************)
(* Properties of Update, under Spec.                                       *)
(***************************************************************************)
reqOf(p) == call[p].user

isMerge(p) == ~reqOf(p).Metadata.nil

AllSucceeded == \A p \in Procs : pc[p] = "done" /\ result[p] = "ok"

\* call p's update adds key k, and no other call on that user names k
addsKey(p, k) ==
    /\ isMerge(p)
    /\ reqOf(p).Metadata.doc[k].t # "absent"
    /\ \A q \in Procs \ {p} :
          (isMerge(q) /\ reqOf(q).UserID = reqOf(p).UserID)
              => reqOf(q).Metadata.doc[k].t = "absent"

\* C1: no lost updates.  Once every call has returned successfully, the
\* stored document of a user holds every key that a merge update on that
\* user added, whatever the interleaving of the merge updates and of the
\* nil-metadata updates running beside them.
C1_NoLostUpdates ==
    AllSucceeded =>
        \A p \in Procs : \A k \in Keys :
            addsKey(p, k) => users[reqOf(p).UserID].Metadata[k].t # "absent"

\* two merge updates of u1 that added different keys have both returned
C1_Witness ==
    /\ AllSucceeded
    /\ \E p \in Procs : \E q \in Procs \ {p} :
          /\ reqOf(p).UserID = "u1" /\ reqOf(q).UserID = "u1"
          /\ addsKey(p, "a") /\ addsKey(q, "b")
          /\ users["u1"].Metadata["a"].t # "absent"
          /\ users["u1"].Metadata["b"].t # "absent"

\* the call is between a successful acquireAdvisoryLock and its release
InLockHeld(p) == isMerge(p) /\ pc[p] \in {"merge", "write", "get", "release"}

\* C2: mutual exclusion per entity.  No two calls for the same UserID are
\* inside their LockHeld section (mergeMetadata's read to updateUser's
\* write, up to the deferred release) at the same time.
C2_MutualExclusion ==
    \A p \in Procs : \A q \in Procs \ {p} :
        (InLockHeld(p) /\ InLockHeld(q)) => reqOf(p).UserID # reqOf(q).UserID

\* one call is about to write while another call for the same user waits
\* for the lock
C2_Witness ==
    \E p \in Procs : \E q \in Procs \ {p} :
        /\ InLockHeld(p) /\ pc[p] = "write"
        /\ pc[q] = "acquire"
        /\ reqOf(p).UserID = reqOf(q).UserID
        /\ lock[hashKey(reqOf(p).UserID)] = p

\* C3: guaranteed release.  A call that acquired the advisory lock has run
\* the release step when it returns, on every exit path from LockHeld, and
\* no longer holds the lock of its key.
C3_ReleasedOnEveryExit ==
    \A p \in Procs :
        (pc[p] = "done" /\ lockID[p] # 0)
            => (released[p] # "none" /\ lock[lockID[p]] # p)

\* C4: cancellation never leaks a lock.  A call whose context was
\* cancelled, before acquisition or while in LockHeld, holds no lock once
\* it has returned.
C4_CancelNeverLeaks ==
    \A p \in Procs :
        (pc[p] = "done" /\ ctx[p] = "canceled")
            => \A id \in LockIDs : lock[id] # p

\* the step in which call p's lock acquisition fails
AcquireFails(p) == pc[p] = "acquire" /\ pc'[p] # "acquire" /\ lockID'[p] = 0

\* C5: when lock acquisition fails, Update returns an error at once: no
\* read-merge, no write, the table is unchanged, and no lock is held or
\* released by the call.
C5_AcquireFailureAborts ==
    [][\A p \in Procs :
          AcquireFails(p) =>
              /\ pc'[p] = "done"
              /\ result'[p] \in {"Unavailable", "Canceled"}
              /\ users' = users
              /\ lock' = lock
              /\ user'[p] = reqOf(p)
              /\ released'[p] = "none"]_vars

\* a call has returned Unavailable: it wrote nothing and holds no lock
C5_Witness ==
    \E p \in Procs :
        /\ pc[p] = "done" /\ result[p] = "Unavailable"
        /\ lockID[p] = 0 /\ released[p] = "none"
        /\ \A id \in LockIDs : lock[id] # p
        /\ user[p] = reqOf(p)

\* the step in which a nil-metadata call p runs its UPDATE
DirectWrite(p) == ~isMerge(p) /\ pc[p] = "write" /\ pc'[p] = "get"

\* what a column holds after an update that supplies v for it
kept(old, v) == IF v = "" THEN old ELSE v

\* C7: an Update whose Metadata is nil takes the direct-write path: it
\* never asks for the advisory lock, and its write leaves the stored
\* metadata and every column supplied as a zero value unchanged and
\* replaces exactly the columns supplied with non-zero values.
C7_DirectWriteKeepsZeroes ==
    /\ [](\A p \in Procs :
            ~isMerge(p) => /\ lockID[p] = 0
                           /\ pc[p] \notin {"acquire", "merge", "release"})
    /\ [][\A p \in Procs :
            DirectWrite(p) =>
                LET u == reqOf(p).UserID IN
                /\ users'[u].Metadata = users[u].Metadata
                /\ users'[u].Email = kept(users[u].Email, reqOf(p).Email)
                /\ users'[u].FirstName = kept(users[u].FirstName, reqOf(p).FirstName)
                /\ users'[u].LastName = kept(users[u].LastName, reqOf(p).LastName)
                /\ users'[u].exists = users[u].exists
                /\ \A v \in UserIDs \ {u} : users'[v] = users[v]
                /\ lock' = lock]_vars

\* the update {FirstName: bob, LastName: smith, Email: "", Metadata: nil}
\* has returned: the names are replaced, email and metadata are as created
C7_Witness ==
    \E p \in Procs :
        /\ ~isMerge(p) /\ pc[p] = "done" /\ result[p] = "ok"
        /\ reqOf(p).Email = "" /\ reqOf(p).FirstName = "bob"
        /\ users["u1"].FirstName = "bob"
        /\ users["u1"].LastName = "smith"
        /\ users["u1"].Email = "email"
        /\ users["u1"].Metadata \in InitDocs

\* the users the table holds no row for
Missing == {u \in UserIDs : ~Table(EmptyDoc)[u].exists}

\* C8: an Update on a UserID that does not exist returns NotFound, on the
\* direct-write path and on the locked merge path (unless the context is
\* cancelled or the lock cannot be had, which return their own error); it
\* creates no row and no step of it changes any row.
C8_UpdateMissingIsNotFound ==
    /\ [](\A p \in Procs :
            reqOf(p).UserID \in Missing =>
                /\ ~users[reqOf(p).UserID].exists
                /\ pc[p] = "done" =>
                      /\ result[p] \in {"NotFound", "Canceled", "Unavailable"}
                      /\ (ctx[p] = "live" /\ result[p] # "Unavailable")
                            => result[p] = "NotFound")
    /\ [][\A p \in Procs :
            (reqOf(p).UserID \in Missing /\ pc'[p] # pc[p]) => users' = users]_vars

\* both paths have returned NotFound for the missing user
C8_Witness ==
    \E p \in Procs : \E q \in Procs :
        /\ reqOf(p).UserID \in Missing /\ reqOf(q).UserID \in Missing
        /\ ~isMerge(p) /\ isMerge(q)
        /\ pc[p] = "done" /\ pc[q] = "done"
        /\ result[p] = "NotFound" /\ result[q] = "NotFound"
        /\ released[q] = "released"

(***************************************************************************)
(* SpecMerge: one Update call (the other processes make none), with the    *)
(* stored document and the update document drawn from MergeDocs.           *)
(***************************************************************************)
InnerVals == { InnerAbsent, InnerNull, InnerNum(0), InnerNum(1) }

AVals ==
    { Absent, Null, Num(0), Num(1) }
        \cup { Obj(Inner2(x, y)) : x \in InnerVals, y \in InnerVals }

MergeDocs ==
    { Doc3(x, y, z) : x \in AVals, y \in {Absent, Num(2)}, z \in {Absent, Num(3)} }

MergeDocCalls ==
    { Call(Req("u1", "", "", "", Meta(d)), priv) : d \in MergeDocs, priv \in BOOLEAN }

\* the call of a process that makes none
NoCall == Call(Req("", "", "", "", NilMetadata), FALSE)

InitMerge ==
    /\ \E d \in MergeDocs : users = Table(d)
    /\ lock = [id \in LockIDs |-> NoProc]
    /\ pc = [p \in Procs |-> IF p = 1 THEN "start" ELSE "done"]
    /\ \E c \in MergeDocCalls \cup Calls :
          call = [p \in Procs |-> IF p = 1 THEN c ELSE NoCall]
    /\ user = [p \in Procs |-> call[p].user]
    /\ ctx = [p \in Procs |-> "live"]
    /\ lockID = [p \in Procs |-> 0]
    /\ released = [p \in Procs |-> "none"]
    /\ result = [p \in Procs |-> "none"]
    /\ SearchIdle
    /\ QueryIdle
    /\ AuxIdle

SpecMerge == InitMerge /\ [][Next]_vars

\* the step in which a merge call p runs its UPDATE
MergeWrite(p) == isMerge(p) /\ pc[p] = "write" /\ pc'[p] = "get"

nullOrZero(t, n) == t = "null" \/ (t = "num" /\ n = 0)

\* the merge rule for one key of a nested object
obeysInner(e, u, r, priv) ==
    /\ u.t = "absent" => r = e
    /\ (u.t # "absent" /\ nullOrZero(u.t, u.n)
            /\ e.t # "absent" /\ ~nullOrZero(e.t, e.n))
          => r = (IF priv THEN u ELSE e)
    /\ (u.t # "absent"
            /\ ~(nullOrZero(u.t, u.n) /\ e.t # "absent" /\ ~nullOrZero(e.t, e.n)))
          => r = u

noKeys(v) == v.t = "obj" /\ \A k \in Keys : v.o[k].t = "absent"

empty(v) == nullOrZero(v.t, v.n) \/ noKeys(v)

\* the merge rule for one key of the document
obeys(e, u, r, priv) ==
    /\ u.t = "absent" => r = e
    /\ (u.t # "absent" /\ empty(u) /\ e.t # "absent" /\ ~empty(e))
          => r = (IF priv THEN u ELSE e)
    /\ (u.t # "absent" /\ ~(empty(u) /\ e.t # "absent" /\ ~empty(e)))
          => IF e.t = "obj" /\ u.t = "obj"
             THEN /\ r.t = "obj"
                  /\ \A k \in Keys : obeysInner(e.o[k], u.o[k], r.o[k], priv)
             ELSE r = u

\* C6: the deep-merge rule.  The document a merge update stores keeps
\* every key of the existing document E that the update U does not name,
\* keeps E's value where U gives null or zero and E holds a non-empty value
\* (U's value instead when the caller is privileged), and takes U's value
\* for every other key, nested objects merging key by key by the same rule.
C6_DeepMergeRule ==
    [][\A p \in Procs :
          MergeWrite(p) =>
              \A k \in Keys :
                  obeys(users[reqOf(p).UserID].Metadata[k],
                        reqOf(p).Metadata.doc[k],
                        users'[reqOf(p).UserID].Metadata[k],
                        call[p].isPrivileged)]_vars

\* E = {a:1, b:2} updated with U = {a:null, c:3}, not privileged, has been
\* stored as {a:1, b:2, c:3}
C6_Witness ==
    /\ pc[1] = "done" /\ result[1] = "ok"
    /\ reqOf(1).UserID = "u1"
    /\ reqOf(1).Metadata = Meta(Doc3(Null, Absent, Num(3)))
    /\ ~call[1].isPrivileged
    /\ users["u1"].Metadata = Doc3(Num(1), Num(2), Num(3))

(***************************************************************************)
(* searchMessages and documentSearchOperation.Execute, one call.           *)
(***************************************************************************)
sameUpdate == UNCHANGED <<updVars, queryVars, auxVars>>

returns(err, count) ==
    /\ sres' = Result(TRUE, err, count)
    /\ spc' = "done"

\* the number of rows a fetch with the given LIMIT can bring back
Counts(limit) == {n \in {0, 1, 2} : n <= limit}

\* math.NaN as a distance; the store sorts it after every number
NaN == 99

IsNaN(x) == x = NaN

\* a result row: its insertion time and its dist column
Candidate(id, created_at, dist) == [id |-> id, created_at |-> created_at, dist |-> dist]

\* embeddings are unit vectors; NoVector stands for an embedding whose
\* distance to the query is not a number (a zero vector under <=>, an
\* overflow under <#>)
NoVector == <<0, 0>>

\* the embedding of the query text
queryVector == <<1, 0>>

\* a stored row: its insertion time and its embedding
Embedded(id, created_at, embedding) ==
    [id |-> id, created_at |-> created_at, embedding |-> embedding]

Stored ==
    { Embedded(1, 1, <<0, 1>>), Embedded(2, 2, <<1, 0>>), Embedded(3, 3, NoVector) }

innerProduct(a, b) == a[1] * b[1] + a[2] * b[2]

\* embedding <#> ? : the negative inner product
negativeInnerProduct(a, b) ==
    IF a = NoVector THEN NaN ELSE 0 - innerProduct(a, b)

\* embedding <=> ? : the cosine distance, 1 - cosine similarity (the
\* vectors have length 1, so their cosine similarity is their inner product)
cosineDistance(a, b) ==
    IF a = NoVector THEN NaN ELSE 1 - innerProduct(a, b)

\* the dist column of a row, by the expression the query selects it with
distColumn(expr, embedding) ==
    CASE expr = "embedding <#> ?" -> negativeInnerProduct(embedding, queryVector)
      [] expr = "1 - (embedding <=> ?)" ->
             IF IsNaN(cosineDistance(embedding, queryVector)) THEN NaN
             ELSE 1 - cosineDistance(embedding, queryVector)
      [] OTHER -> 0

\* whether the rows are in the order of the query's ORDER BY, if it has one
ordered(rows, order) ==
    \A i, j \in 1..Len(rows) :
        i < j => CASE order = "dist ASC" -> rows[i].dist <= rows[j].dist
                   [] order = "created_at DESC" -> rows[i].created_at >= rows[j].created_at
                   [] OTHER -> TRUE

\* what a scan of n rows can bring back: n distinct rows with the dist
\* column the query selects (zero without one), in the order of the query
Scanned(query, n) ==
    { rows \in { [i \in 1..n |-> Candidate(t[i].id, t[i].created_at,
                                           distColumn(query.dist, t[i].embedding))] :
                   t \in { u \in [1..n -> Stored] :
                              \A i, j \in 1..n : i # j => u[i] # u[j] } } :
        ordered(rows, query.order) }

\* !math.IsNaN(result.Dist) || len(metadata) > 0
valid(r) == ~IsNaN(r.dist) \/ sq.hasMetadata

filterValidMessageSearchResults(results) == SelectSeq(results, valid)

\* searchMessages, lines 36-42: an empty query is refused
searchMessagesCheck ==
    /\ spc = "start" /\ sq.kind = "messages"
    /\ IF sq.text = "" /\ ~sq.hasMetadata
       THEN /\ returns("InvalidQuery", 0)
       ELSE /\ spc' = "build"
            /\ UNCHANGED sres
    /\ UNCHANGED <<sq, slimit, dbQuery, serr, sio, srows, sfetched>>
    /\ sameUpdate

\* buildMessagesSelectQuery: with a text, addMessagesVectorColumn embeds it;
\* its error is dropped and the query it returns (nil on error) is kept
buildMessagesSelectQuery ==
    /\ spc = "build" /\ sq.kind = "messages"
    /\ spc' = "filter"
    /\ IF sq.text # ""
       THEN /\ sio' = Append(sio, IO("embed", 0))
            /\ \/ dbQuery' = Query(FALSE, "embedding <#> ?", FALSE, "", 0)
               \/ dbQuery' = NoQuery
       ELSE /\ dbQuery' = Query(FALSE, "", FALSE, "", 0)
            /\ UNCHANGED sio
    /\ UNCHANGED <<sq, slimit, serr, sres, srows, sfetched>>
    /\ sameUpdate

\* searchMessages, lines 45-64: the metadata filter, the session and
\* deleted_at conditions, the order and the limit; a nil query panics
shapeMessagesQuery ==
    /\ spc = "filter" /\ sq.kind = "messages"
    /\ IF dbQuery.nil
       THEN /\ returns("panic", 0)
            /\ UNCHANGED <<slimit, dbQuery>>
       ELSE /\ slimit' = IF sq.limit = 0 THEN defaultSearchLimit ELSE sq.limit
            /\ dbQuery' = [dbQuery EXCEPT
                             !.filter = sq.hasMetadata,
                             !.order = IF sq.text # "" THEN "dist ASC"
                                       ELSE "created_at DESC",
                             !.limit = slimit']
            /\ spc' = "scan"
            /\ UNCHANGED sres
    /\ UNCHANGED <<sq, serr, sio, srows, sfetched>>
    /\ sameUpdate

\* executeMessagesSearchScan and the return of the filtered results
executeMessagesSearchScan ==
    /\ spc = "scan" /\ sq.kind = "messages"
    /\ sio' = Append(sio, Stmt("scan", dbQuery.limit, "db"))
    /\ \/ /\ returns("StorageError", 0)
          /\ UNCHANGED <<srows, sfetched>>
       \/ \E n \in Counts(dbQuery.limit) : \E results \in Scanned(dbQuery, n) :
             /\ sfetched' = results
             /\ srows' = filterValidMessageSearchResults(results)
             /\ returns("", Len(srows'))
    /\ UNCHANGED <<sq, slimit, dbQuery, serr>>
    /\ sameUpdate

\* newDocumentSearchOperation: the limit is defaulted
newDocumentSearchOperation ==
    /\ spc = "start" /\ sq.kind = "documents"
    /\ slimit' = IF sq.limit <= 0 THEN DefaultDocumentSearchLimit ELSE sq.limit
    /\ spc' = "execute"
    /\ UNCHANGED <<sq, dbQuery, serr, sio, sres, srows, sfetched>>
    /\ sameUpdate

\* the handle the closure of Execute sends SET LOCAL ivfflat.probes through
\* (line 62: dso.db.Exec, not tx.Exec)
probeHandle == "db"

\* the handle Execute passes to execQuery (lines 66 and 74: dso.db)
fetchHandle == "db"

\* Execute, lines 59-62: an indexed collection opens a transaction and
\* sets ivfflat.probes (through dso.db)
ExecuteBegin ==
    /\ spc = "execute" /\ sq.kind = "documents"
    /\ IF sq.isIndexed
       THEN /\ \/ /\ sio' = sio \o <<Stmt("begin", 0, "tx"),
                                     Stmt("setProbes", 0, probeHandle)>>
                  /\ spc' = "buildQuery"
                  /\ UNCHANGED serr
               \/ /\ sio' = sio \o <<Stmt("begin", 0, "tx"),
                                     Stmt("setProbes", 0, probeHandle),
                                     Stmt("rollback", 0, "tx")>>
                  /\ serr' = "error setting probes"
                  /\ spc' = "return"
       ELSE /\ spc' = "buildQuery"
            /\ UNCHANGED <<serr, sio>>
    /\ UNCHANGED <<sq, slimit, dbQuery, sres, srows, sfetched>>
    /\ sameUpdate

\* the end of the transaction of an indexed collection's fetch
endTx(err) == IF sq.isIndexed
              THEN <<Stmt(IF err = "" THEN "commit" ELSE "rollback", 0, "tx")>>
              ELSE <<>>

\* buildQuery: the vector column (the text is embedded), the metadata
\* filter, the limit and the order
buildQuery ==
    /\ spc = "buildQuery" /\ sq.kind = "documents"
    /\ IF sq.text # ""
       THEN \/ /\ sio' = sio \o <<IO("embed", 0)>> \o endTx("error")
               /\ serr' = "error building query"
               /\ spc' = "return"
               /\ UNCHANGED dbQuery
            \/ /\ sio' = Append(sio, IO("embed", 0))
               /\ dbQuery' = Query(FALSE, "1 - (embedding <=> ?)", sq.hasMetadata,
                                    "dist ASC", slimit)
               /\ spc' = "scan"
               /\ UNCHANGED serr
       ELSE /\ dbQuery' = Query(FALSE, "", sq.hasMetadata, "", slimit)
            /\ spc' = "scan"
            /\ UNCHANGED <<serr, sio>>
    /\ UNCHANGED <<sq, slimit, sres, srows, sfetched>>
    /\ sameUpdate

\* execQuery, lines 98-107: ScanAndCount; no row is a NotFound error
execQuery ==
    /\ spc = "scan" /\ sq.kind = "documents"
    /\ spc' = "return"
    /\ \/ /\ serr' = "error scanning query"
          /\ sio' = Append(sio, Stmt("scan", dbQuery.limit, fetchHandle))
                       \o endTx("error")
          /\ UNCHANGED <<sres, srows, sfetched>>
       \/ \E n \in Counts(dbQuery.limit) : \E results \in Scanned(dbQuery, n) :
             /\ serr' = IF n = 0 THEN "NotFound" ELSE ""
             /\ sio' = Append(sio, Stmt("scan", dbQuery.limit, fetchHandle))
                          \o endTx(serr')
             /\ sres' = Result(FALSE, "", n)
             /\ srows' = results
             /\ sfetched' = results
    /\ UNCHANGED <<sq, slimit, dbQuery>>
    /\ sameUpdate

\* Execute, lines 63-85: the closure's error is what RunInTx returns, and
\* Execute does not look at it; without a transaction the error is returned
ExecuteReturn ==
    /\ spc = "return" /\ sq.kind = "documents"
    /\ IF sq.isIndexed
       THEN returns("", IF serr = "" THEN sres.count ELSE 0)
       ELSE returns(serr, IF serr = "" THEN sres.count ELSE 0)
    /\ UNCHANGED <<sq, slimit, dbQuery, serr, sio, srows, sfetched>>
    /\ sameUpdate

Searches ==
    { Search("messages", t, m, l, FALSE, FALSE) :
          t \in {"", "hello"}, m \in BOOLEAN, l \in {0, 1, 2} }
    \cup
    { Search("documents", t, m, l, mmr, ix) :
          t \in {"", "hello"}, m \in BOOLEAN, l \in {-1, 0, 1, 2},
          mmr \in BOOLEAN, ix \in BOOLEAN }

UpdateIdle ==
    /\ users = Table(EmptyDoc)
    /\ lock = [id \in LockIDs |-> NoProc]
    /\ pc = [p \in Procs |-> "done"]
    /\ call = [p \in Procs |-> NoCall]
    /\ user = [p \in Procs |-> NoCall.user]
    /\ ctx = [p \in Procs |-> "live"]
    /\ lockID = [p \in Procs |-> 0]
    /\ released = [p \in Procs |-> "none"]
    /\ result = [p \in Procs |-> "none"]

InitSearch ==
    /\ UpdateIdle
    /\ QueryIdle
    /\ AuxIdle
    /\ spc = "start"
    /\ sq \in Searches
    /\ slimit = 0
    /\ dbQuery = NoQuery
    /\ serr = ""
    /\ sio = <<>>
    /\ sres = NoResult
    /\ srows = <<>>
    /\ sfetched = <<>>

NextSearch ==
    \/ searchMessagesCheck
    \/ buildMessagesSelectQuery
    \/ shapeMessagesQuery
    \/ executeMessagesSearchScan
    \/ newDocumentSearchOperation
    \/ ExecuteBegin
    \/ buildQuery
    \/ execQuery
    \/ ExecuteReturn

SpecSearch == InitSearch /\ [][NextSearch]_vars

\* the search request has neither text nor metadata
emptyQuery == sq.text = "" /\ ~sq.hasMetadata

\* C9: a search request with an empty text and an empty metadata fails
\* with InvalidQuery before any I/O, in searchMessages and in
\* documentSearchOperation.Execute: the embedding provider and the store
\* are never called.
C9_EmptyQueryRejected ==
    (emptyQuery /\ sq.kind \in {"messages", "documents"}) =>
        /\ sio = <<>>
        /\ sres.returned => sres.err = "InvalidQuery"

(***************************************************************************)
(* parseJSONQuery: the filter tree compiled into where clauses.            *)
(***************************************************************************)
\* a JSONQuery; the zero JSONPath "" is the empty sequence
Node(path, and, or) == [JSONPath |-> path, And |-> and, Or |-> or]

\* jsonpath strings, as sequences of their pieces; the third one quotes its
\* string with single quotes
PathA == <<"$.a">>

PathB == <<"$.b">>

PathQ == <<"$.c ? (@ == ", "'", "x", "'", ")">>

Paths == {PathA, PathB, PathQ}

\* strings.ReplaceAll(s, old, new), piece by piece
ReplaceAll(s, old, new) ==
    [i \in 1..Len(s) |-> IF s[i] = old THEN new ELSE s[i]]

\* a where clause of the builder (schema.QueryWithSep): a condition with
\* its argument and the separator written before it; a group's separator
\* and parentheses are clauses with an empty Query
Clause(query, sep) == [Query |-> query, Sep |-> sep]

\* qb.Where("jsonb_path_exists(m.metadata, ?)", path)
Where(builder, path) == Append(builder, Clause(path, " AND "))

\* qb.WhereOr("jsonb_path_exists(m.metadata, ?)", path)
WhereOr(builder, path) == Append(builder, Clause(path, " OR "))

\* qb.WhereGroup(sep, fn), where fn has added the clauses inner: nothing
\* for no clause; else the separator, "(", the clauses, the first without
\* its separator, and ")"
WhereGroup(builder, sep, inner) ==
    IF inner = <<>> THEN builder
    ELSE builder \o <<Clause(<<>>, sep), Clause(<<>>, "(")>>
                 \o [inner EXCEPT ![1].Sep = ""]
                 \o <<Clause(<<>>, ")")>>

RECURSIVE parseJSONQuery(_, _, _), parseChildren(_, _, _)

\* the Or group is joined to what precedes it with OR
parseJSONQueryOrJoined(builder, query, isOr) ==
    LET b1 == IF query.JSONPath # <<>>
              THEN IF isOr
                   THEN WhereOr(builder, ReplaceAll(query.JSONPath, "'", "\""))
                   ELSE Where(builder, ReplaceAll(query.JSONPath, "'", "\""))
              ELSE builder
        b2 == IF Len(query.And) > 0
              THEN WhereGroup(b1, " AND ", parseChildren(<<>>, query.And, FALSE))
              ELSE b1
    IN  IF Len(query.Or) > 0
        THEN WhereGroup(b2, " OR ", parseChildren(<<>>, query.Or, TRUE))
        ELSE b2

\* parseJSONQuery(qb, jq, isOr)
parseJSONQuery(builder, query, isOr) ==
    LET b1 == IF query.JSONPath # <<>>
              THEN IF isOr
                   THEN WhereOr(builder, ReplaceAll(query.JSONPath, "'", "\""))
                   ELSE Where(builder, ReplaceAll(query.JSONPath, "'", "\""))
              ELSE builder
        b2 == IF Len(query.And) > 0
              THEN WhereGroup(b1, " AND ", parseChildren(<<>>, query.And, FALSE))
              ELSE b1
    IN  IF Len(query.Or) > 0
        THEN WhereGroup(b2, " AND ", parseChildren(<<>>, query.Or, TRUE))
        ELSE b2

\* for _, subQuery := range children { qq = parseJSONQuery(qq, subQuery, isOr) }
parseChildren(builder, children, isOr) ==
    IF children = <<>> THEN builder
    ELSE parseChildren(parseJSONQuery(builder, Head(children), isOr),
                       Tail(children), isOr)

(***************************************************************************)
(* The WHERE text the builder writes (appendWhere) and what it selects.    *)
(***************************************************************************)
Tok(k, path) == [k |-> k, path |-> path]

RECURSIVE appendWhere(_, _)

\* the tokens of clauses i.. of where: each separator but the first
\* clause's, and each condition in parentheses
appendWhere(where, i) ==
    IF i > Len(where) THEN <<>>
    ELSE (IF i > 1 /\ where[i].Sep # "" THEN <<Tok(where[i].Sep, <<>>)>> ELSE <<>>)
         \o (IF where[i].Query = <<>> THEN <<>>
             ELSE <<Tok("(", <<>>), Tok("cond", where[i].Query), Tok(")", <<>>)>>)
         \o appendWhere(where, i + 1)

\* a row's metadata: the jsonpaths that exist in it
Records == SUBSET {PathA, PathB, ReplaceAll(PathQ, "'", "\"")}

jsonb_path_exists(rec, path) == path \in rec

RECURSIVE evalOr(_, _, _), evalAnd(_, _, _), evalAtom(_, _, _)

\* a boolean expression of SQL read from token i: [v: its value on rec,
\* i: the token after it]; AND binds tighter than OR
evalAtom(toks, i, rec) ==
    IF toks[i].k = "("
    THEN LET e == evalOr(toks, i + 1, rec) IN [v |-> e.v, i |-> e.i + 1]
    ELSE [v |-> jsonb_path_exists(rec, toks[i].path), i |-> i + 1]

evalAnd(toks, i, rec) ==
    LET a == evalAtom(toks, i, rec) IN
    IF a.i <= Len(toks) /\ toks[a.i].k = " AND "
    THEN LET b == evalAnd(toks, a.i + 1, rec) IN [v |-> a.v /\ b.v, i |-> b.i]
    ELSE a

evalOr(toks, i, rec) ==
    LET a == evalAnd(toks, i, rec) IN
    IF a.i <= Len(toks) /\ toks[a.i].k = " OR "
    THEN LET b == evalOr(toks, a.i + 1, rec) IN [v |-> a.v \/ b.v, i |-> b.i]
    ELSE a

\* whether a query with the where clauses selects the row
selects(where, rec) ==
    where = <<>> \/ evalOr(appendWhere(where, 1), 1, rec).v

(***************************************************************************)
(* SpecQuery: one filter tree is compiled.                                 *)
(***************************************************************************)
Leaves == { Node(p, <<>>, <<>>) : p \in Paths }

\* the sequences over S of at most MaxChildren elements
SeqsUpTo(S) == UNION { [1..n -> S] : n \in 0..MaxChildren }

LeafSeqs == SeqsUpTo(Leaves)

\* the trees whose children are leaves
FlatTrees == { Node(p, a, o) : p \in Paths \cup {<<>>}, a \in LeafSeqs, o \in LeafSeqs }

\* children with children of their own
Mids ==
    { Node(p, a, o) : p \in {<<>>, PathA},
                      a \in {<<>>, <<Node(PathB, <<>>, <<>>)>>},
                      o \in {<<>>, <<Node(PathB, <<>>, <<>>), Node(PathQ, <<>>, <<>>)>>} }

MidSeqs ==
    { <<>> } \cup { <<m>> : m \in Mids }
             \cup { <<m, l>> : m \in Mids, l \in Leaves }
             \cup { <<l, m>> : m \in Mids, l \in Leaves }

NestedTrees == { Node(p, a, o) : p \in {<<>>, PathB}, a \in MidSeqs, o \in MidSeqs }

Trees == FlatTrees \cup NestedTrees

\* a jsonpath the store cannot parse
PathBad == <<"$.a[">>

\* trees with a malformed leaf: at the root, in an And list, in an Or list
BadTrees ==
    { Node(PathBad, <<>>, <<>>),
      Node(PathA, <<Node(PathBad, <<>>, <<>>)>>, <<>>),
      Node(<<>>, <<>>, <<Node(PathA, <<>>, <<>>), Node(PathBad, <<>>, <<>>)>>) }

Sessions == {"s1", "s2"}

\* the message table: every metadata, in every session, deleted or not
Messages == [metadata : Records, session_id : Sessions, deleted : BOOLEAN]

\* the conditions searchMessages adds after the filter, with their argument
SessionCond(sessionID) == <<"m.session_id = ?", sessionID>>

DeletedCond == <<"m.deleted_at IS NULL">>

\* a row as the store's conditions see it: the conditions true of the row
conds(row) ==
    row.metadata \cup {SessionCond(row.session_id)}
                 \cup (IF row.deleted THEN {} ELSE {DeletedCond})

\* whether the store can parse the jsonpath argument of a condition
wellFormed(path) == path # PathBad

\* the store refuses a query one of whose jsonpath arguments is malformed
storeRefuses(where) ==
    \E i \in 1..Len(where) : where[i].Query # <<>> /\ ~wellFormed(where[i].Query)

InitQuery ==
    /\ UpdateIdle
    /\ SearchIdle
    /\ AuxIdle
    /\ jq \in Trees \cup BadTrees
    /\ qb = <<>>
    /\ qpc = "start"
    /\ qsession \in Sessions
    /\ qres = NoOutcome

\* applyMessagesMetadataFilter: qb = parseJSONQuery(qb, &jq, false)
applyMessagesMetadataFilter ==
    /\ qpc = "start"
    /\ qb' = parseJSONQuery(qb, jq, FALSE)
    /\ qpc' = "compiled"
    /\ UNCHANGED <<jq, qsession, qres, updVars, searchVars, auxVars>>

\* the session condition is joined with OR
searchMessagesScopeOr ==
    /\ qpc = "compiled"
    /\ qb' = Where(WhereOr(qb, SessionCond(qsession)), DeletedCond)
    /\ qpc' = "scoped"
    /\ UNCHANGED <<jq, qsession, qres, updVars, searchVars, auxVars>>

\* searchMessages, lines 53-56: the session and the soft-delete conditions
searchMessagesScope ==
    /\ qpc = "compiled"
    /\ qb' = Where(Where(qb, SessionCond(qsession)), DeletedCond)
    /\ qpc' = "scoped"
    /\ UNCHANGED <<jq, qsession, qres, updVars, searchVars, auxVars>>

\* searchMessages, lines 66-74, for a search by metadata with limit 0: the
\* store runs the query; its error is returned, else the rows it selects
\* (fewer than defaultSearchLimit), all of which pass the filter of valid
\* results
scanFiltered ==
    /\ qpc = "scoped"
    /\ qpc' = "done"
    /\ IF storeRefuses(qb)
       THEN qres' = Outcome(TRUE, TRUE, "memory searchMessages failed", {})
       ELSE \/ qres' = Outcome(TRUE, TRUE, "memory searchMessages failed", {})
            \/ qres' = Outcome(TRUE, TRUE, "",
                               {r \in Messages : selects(qb, conds(r))})
    /\ UNCHANGED <<jq, qb, qsession, updVars, searchVars, auxVars>>

NextQuery ==
    \/ applyMessagesMetadataFilter
    \/ searchMessagesScope
    \/ scanFiltered

SpecQuery == InitQuery /\ [][NextQuery]_vars

\* what the reference semantics of a leaf is: the normalised path exists
leafHolds(path, rec) == path = <<>> \/ ReplaceAll(path, "'", "\"") \in rec

isLeaf(t) == t.JSONPath # <<>> /\ t.And = <<>> /\ t.Or = <<>>

leavesOnly(children) == \A i \in 1..Len(children) : isLeaf(children[i])

\* C10: for the predicate of parseJSONQuery(qb, tree, false): an empty tree
\* adds no clause and selects every row; a tree with only an And list of
\* leaves selects exactly the rows every leaf selects; and the node's own
\* leaf is conjoined with its And group and its Or group: the tree selects
\* a row iff its leaf, its And list alone and its Or list alone select it
\* (for children that are leaves: the leaf holds, every And leaf holds, and
\* some Or leaf holds if there is any).
C10_EmptyAndConjoined ==
    qpc = "compiled" =>
        /\ jq = Node(<<>>, <<>>, <<>>) =>
              (qb = <<>> /\ \A rec \in Records : selects(qb, rec))
        /\ (jq.JSONPath = <<>> /\ jq.Or = <<>> /\ leavesOnly(jq.And)) =>
              \A rec \in Records :
                  selects(qb, rec) <=>
                      \A i \in 1..Len(jq.And) : leafHolds(jq.And[i].JSONPath, rec)
        /\ (leavesOnly(jq.And) /\ leavesOnly(jq.Or)) =>
              \A rec \in Records :
                  selects(qb, rec) <=>
                      /\ leafHolds(jq.JSONPath, rec)
                      /\ \A i \in 1..Len(jq.And) : leafHolds(jq.And[i].JSONPath, rec)
                      /\ jq.Or = <<>> \/
                            \E i \in 1..Len(jq.Or) : leafHolds(jq.Or[i].JSONPath, rec)
        /\ \A rec \in Records :
              selects(qb, rec) <=>
                  /\ leafHolds(jq.JSONPath, rec)
                  /\ selects(parseJSONQuery(<<>>, Node(<<>>, jq.And, <<>>), FALSE), rec)
                  /\ selects(parseJSONQuery(<<>>, Node(<<>>, <<>>, jq.Or), FALSE), rec)

\* a tree with a leaf, two And leaves and two Or leaves has been compiled
\* into five conditions and two groups
C10_Witness ==
    /\ qpc = "compiled"
    /\ jq = Node(PathA, <<Node(PathB, <<>>, <<>>), Node(PathQ, <<>>, <<>>)>>,
                        <<Node(PathB, <<>>, <<>>), Node(PathQ, <<>>, <<>>)>>)
    /\ Len(qb) = 11
    /\ selects(qb, {PathA, PathB, ReplaceAll(PathQ, "'", "\"")})
    /\ ~selects(qb, {PathA, PathB})

RECURSIVE matches(_, _)

\* the reference semantics of a filter tree: the leaf is absent or holds,
\* every And child matches, and some Or child matches if there is any
matches(t, rec) ==
    /\ leafHolds(t.JSONPath, rec)
    /\ \A i \in 1..Len(t.And) : matches(t.And[i], rec)
    /\ t.Or = <<>> \/ \E i \in 1..Len(t.Or) : matches(t.Or[i], rec)

\* C11: Or lists and nested mixed trees associate correctly: the predicate
\* parseJSONQuery compiles selects a row iff the reference semantics of the
\* tree matches it, also when an Or child has no leaf of its own but only
\* And/Or child lists.
C11_OrAssociates ==
    qpc = "compiled" => \A rec \in Records : selects(qb, rec) <=> matches(jq, rec)

(***************************************************************************)
(* SpecMMR: the MMR reranker over a fetched candidate list.                *)
(***************************************************************************)
\* the distances the fetch computed, and the vectors of the candidates
Dists == {1, 2}

NoVec == <<>>

Vecs == { <<1, 0>>, <<0, 1>> }

\* a search candidate: its distance to the query vector and its
\* materialized vector, if it has one
Cand(dist, vec) == [dist |-> dist, vec |-> vec]

Cands == { Cand(d, v) : d \in Dists, v \in Vecs \cup {NoVec} }

\* lambda, in halves: 0, 1/2, 1
Lambdas == {0, 1, 2}

\* the similarity given to a candidate without a vector: the lowest one
MinSim == 0

dot(v, w) == v[1] * w[1] + v[2] * w[2]

\* relevance to the query: the lower the distance, the more relevant
relevance(c) == 0 - c.dist

\* similarity of two candidates, from their vectors
similarity(c, s) ==
    IF c.vec = NoVec \/ s.vec = NoVec THEN MinSim ELSE dot(c.vec, s.vec)

\* max(similarity(candidate, s) for s in selected)
maxSimilarity(c, selected) ==
    CHOOSE m \in { similarity(c, mcand[j]) : j \in selected } :
        \A j \in selected : similarity(c, mcand[j]) <= m

\* twice lambda * relevance - (1 - lambda) * max similarity; the first pick
\* has no selected set to compare against
mmrScore(i, selected) ==
    IF selected = {} THEN 2 * relevance(mcand[i])
    ELSE mparam.lambda * relevance(mcand[i])
         - (2 - mparam.lambda) * maxSimilarity(mcand[i], selected)

\* every candidate stays in play, selected or not
remainingAll(selected) == 1..Len(mcand)

\* the candidates not selected yet
remaining(selected) == (1..Len(mcand)) \ selected

\* the remaining candidate of highest score, the earliest fetched of them
best(selected) ==
    CHOOSE i \in remaining(selected) :
        \A j \in remaining(selected) :
            \/ mmrScore(j, selected) < mmrScore(i, selected)
            \/ mmrScore(j, selected) = mmrScore(i, selected) /\ i <= j

selectedSet == { msel[k] : k \in 1..Len(msel) }

notMMR == <<updVars, searchVars, queryVars, handlerVars, listVars, offsetVars>>

\* one round of rerank: the best remaining candidate is selected
rerankSelect ==
    /\ mpc = "select"
    /\ Len(msel) < mparam.limit
    /\ remaining(selectedSet) # {}
    /\ msel' = Append(msel, best(selectedSet))
    /\ UNCHANGED <<mpc, mcand, mparam>>
    /\ UNCHANGED notMMR

\* rerank returns: limit is reached or the candidates are exhausted
rerankReturn ==
    /\ mpc = "select"
    /\ Len(msel) >= mparam.limit \/ remaining(selectedSet) = {}
    /\ mpc' = "done"
    /\ UNCHANGED <<mcand, mparam, msel>>
    /\ UNCHANGED notMMR

CandSeqs == UNION { [1..n -> Cands] : n \in 0..MaxCandidates }

InitMMR ==
    /\ UpdateIdle
    /\ SearchIdle
    /\ QueryIdle
    /\ HandlerIdle /\ ListIdle /\ OffsetIdle
    /\ mpc = "select"
    /\ mcand \in CandSeqs
    /\ mparam \in [limit : 0..(MaxCandidates + 1), lambda : Lambdas]
    /\ msel = <<>>

NextMMR == rerankSelect \/ rerankReturn

SpecMMR == InitMMR /\ [][NextMMR]_vars

\* the score of candidate i against the first k - 1 selected ones
scoreAt(i, k) ==
    LET before == { msel[h] : h \in 1..(k - 1) }
        sims == { IF mcand[i].vec = NoVec \/ mcand[j].vec = NoVec THEN 0
                  ELSE dot(mcand[i].vec, mcand[j].vec) : j \in before }
        worst == CHOOSE m \in sims : \A x \in sims : x <= m
    IN  IF k = 1 THEN 0 - 2 * mcand[i].dist
        ELSE mparam.lambda * (0 - mcand[i].dist) - (2 - mparam.lambda) * worst

Min2(a, b) == IF a <= b THEN a ELSE b

\* C17: rerank returns a duplicate-free selection of the candidates, of
\* length min(limit, number of candidates); its first element is the most
\* relevant candidate; each later element is the remaining candidate of
\* highest lambda * relevance - (1 - lambda) * max similarity to the
\* selected ones, ties broken by fetch order; a candidate without a vector
\* counts as maximally dissimilar and the selection still completes.
C17_RerankSelection ==
    mpc = "done" =>
        /\ \A k \in 1..Len(msel) : msel[k] \in 1..Len(mcand)
        /\ \A k, h \in 1..Len(msel) : k # h => msel[k] # msel[h]
        /\ Len(msel) = Min2(mparam.limit, Len(mcand))
        /\ Len(msel) > 0 =>
              \A j \in 1..Len(mcand) :
                  \/ mcand[j].dist > mcand[msel[1]].dist
                  \/ mcand[j].dist = mcand[msel[1]].dist /\ msel[1] <= j
        /\ \A k \in 1..Len(msel) :
              \A j \in (1..Len(mcand)) \ { msel[h] : h \in 1..(k - 1) } :
                  \/ scoreAt(j, k) < scoreAt(msel[k], k)
                  \/ scoreAt(j, k) = scoreAt(msel[k], k) /\ msel[k] <= j

\* with lambda 1/2, a candidate, a duplicate of its vector fetched second
\* and a candidate without a vector fetched third, both at distance 2: the
\* one without a vector is selected ahead of the duplicate
C17_Witness ==
    /\ mpc = "done"
    /\ mparam = [limit |-> 3, lambda |-> 1]
    /\ mcand = << Cand(1, <<1, 0>>), Cand(2, <<1, 0>>), Cand(2, NoVec) >>
    /\ msel = <<1, 3, 2>>

(***************************************************************************)
(* SpecHandler: UpdateMessageMetadataHandler and GetMessageHandler, one    *)
(* request.                                                                *)
(***************************************************************************)
\* the metadata a message can have, stored or in a request body
Metadatas == {"m0", "m1", "m2"}

Requests ==
    { Request("update", d, m) : d \in BOOLEAN, m \in Metadatas }
    \cup { Request("get", TRUE, "") }

notHandler == <<updVars, searchVars, queryVars, mmrVars, listVars, offsetVars>>

\* the handler writes the response and returns
respond(status, metadata) ==
    /\ hresp' = Response(status, metadata)
    /\ hpc' = "done"

\* UpdateMessageMetadataHandler, lines 42-53: the body is decoded
UpdateMessageMetadataHandlerDecode ==
    /\ hpc = "start" /\ hreq.handler = "update"
    /\ IF hreq.decodes
       THEN /\ hpc' = "update"
            /\ UNCHANGED hresp
       ELSE respond(400, "")
    /\ UNCHANGED <<hreq, hmsg, hupd, hget>>
    /\ UNCHANGED notHandler

\* UpdateMessageMetadataHandler, line 55: UpdateMessages is called and what
\* it returns is dropped; the store writes the metadata, or finds no such
\* message, or fails
UpdateMessages ==
    /\ hpc = "update"
    /\ hpc' = "get"
    /\ \/ /\ hmsg # "none"
          /\ hmsg' = hreq.metadata
          /\ hupd' = ""
       \/ /\ hmsg = "none"
          /\ hupd' = "NotFound"
          /\ UNCHANGED hmsg
       \/ /\ hupd' = "Internal"
          /\ UNCHANGED hmsg
    /\ UNCHANGED <<hreq, hget, hresp>>
    /\ UNCHANGED notHandler

\* what GetMessagesByUUID can return: the error and the messages found
GetMessagesByUUID ==
    (IF hmsg = "none"
     THEN { [err |-> "", messages |-> <<>>], [err |-> "NotFound", messages |-> <<>>] }
     ELSE { [err |-> "", messages |-> <<hmsg>>] })
    \cup { [err |-> "Internal", messages |-> <<>>] }

\* handlertools.EncodeJSON(w, messages[0]): the message is written, or the
\* encoding fails and a 500 is rendered
EncodeJSON(message) == respond(200, message) \/ respond(500, "")

\* UpdateMessageMetadataHandler, lines 57-70
UpdateMessageMetadataHandlerGet ==
    /\ hpc = "get" /\ hreq.handler = "update"
    /\ \E r \in GetMessagesByUUID :
          /\ hget' = r.err
          /\ IF r.err # "" THEN respond(404, "")
             ELSE IF Len(r.messages) = 0 THEN respond(404, "")
             ELSE EncodeJSON(r.messages[1])
    /\ UNCHANGED <<hreq, hmsg, hupd>>
    /\ UNCHANGED notHandler

\* GetMessageHandler, lines 96-112: the error of GetMessagesByUUID is dropped
GetMessageHandler ==
    /\ hpc = "start" /\ hreq.handler = "get"
    /\ \E r \in GetMessagesByUUID :
          /\ hget' = r.err
          /\ IF Len(r.messages) = 0 THEN respond(404, "")
             ELSE EncodeJSON(r.messages[1])
    /\ UNCHANGED <<hreq, hmsg, hupd>>
    /\ UNCHANGED notHandler

InitHandler ==
    /\ UpdateIdle
    /\ SearchIdle
    /\ QueryIdle
    /\ MMRIdle /\ ListIdle /\ OffsetIdle
    /\ hpc = "start"
    /\ hreq \in Requests
    /\ hmsg \in Metadatas \cup {"none"}
    /\ hupd = ""
    /\ hget = ""
    /\ hresp = Response(0, "")

NextHandler ==
    \/ UpdateMessageMetadataHandlerDecode
    \/ UpdateMessages
    \/ UpdateMessageMetadataHandlerGet
    \/ GetMessageHandler

SpecHandler == InitHandler /\ [][NextHandler]_vars

\* C18: UpdateMessageMetadataHandler and GetMessageHandler respond 500 when
\* UpdateMessages or GetMessagesByUUID fails with an error other than
\* not-found, and 404 only when the session or message does not exist; a
\* failed metadata update is never answered with 200 and the message as it
\* was.
C18_HandlerStatus ==
    (hpc = "done" /\ hresp.status # 400) =>
        /\ (hupd = "Internal" \/ hget = "Internal") => hresp.status = 500
        /\ hresp.status = 404 => hmsg = "none"
        /\ hupd # "" => hresp.status # 200

(***************************************************************************)
(* SpecList: UserStoreDAO.ListAll, called page after page.                 *)
(***************************************************************************)
IDs == 1..MaxID

RECURSIVE ascending(_)

\* OrderExpr("id ASC"): the ids in increasing order
ascending(S) ==
    IF S = {} THEN <<>>
    ELSE LET m == CHOOSE x \in S : \A y \in S : x <= y
         IN  <<m>> \o ascending(S \ {m})

\* Limit(limit), for a positive limit
Limit(rows, limit) == IF Len(rows) <= limit THEN rows ELSE SubSeq(rows, 1, limit)

\* a call of ListAll and the users it returned
Page(cursor, page) == [cursor |-> cursor, users |-> page]

notList == <<updVars, searchVars, queryVars, handlerVars, mmrVars, offsetVars>>

\* the page starts at the cursor's own id
ListAllInclusive ==
    /\ lpc = "list"
    /\ LET page == Limit(ascending({id \in ltable : id >= lcursor}), llimit)
       IN  /\ lpages' = Append(lpages, Page(lcursor, page))
           /\ IF page = <<>>
              THEN lpc' = "done" /\ UNCHANGED lcursor
              ELSE lcursor' = page[Len(page)] /\ UNCHANGED lpc
    /\ UNCHANGED <<lerr, ltable, llimit>>
    /\ UNCHANGED notList

\* ListAll(ctx, cursor, limit): the scan fails and its error is returned, or
\* the users of id > cursor, by id, up to limit; the caller goes on from the
\* last id of the page until a page is empty
ListAll ==
    /\ lpc = "list"
    /\ \/ /\ lerr' = "error"
          /\ lpc' = "done"
          /\ UNCHANGED <<lpages, lcursor>>
       \/ LET page == Limit(ascending({id \in ltable : id > lcursor}), llimit)
          IN  /\ lpages' = Append(lpages, Page(lcursor, page))
              /\ IF page = <<>>
                 THEN lpc' = "done" /\ UNCHANGED lcursor
                 ELSE lcursor' = page[Len(page)] /\ UNCHANGED lpc
              /\ UNCHANGED lerr
    /\ UNCHANGED <<ltable, llimit>>
    /\ UNCHANGED notList

InitList ==
    /\ UpdateIdle
    /\ SearchIdle
    /\ QueryIdle
    /\ HandlerIdle /\ MMRIdle /\ OffsetIdle
    /\ lpc = "list"
    /\ ltable \in SUBSET IDs
    /\ lcursor \in 0..MaxID
    /\ llimit \in 1..MaxLimit
    /\ lpages = <<>>
    /\ lerr = ""

NextList == ListAll

SpecList == InitList /\ [][NextList]_vars

RECURSIVE concat(_)

\* the users of the pages, one page after the other
concat(pages) ==
    IF pages = <<>> THEN <<>> ELSE Head(pages).users \o concat(Tail(pages))

\* C19: ListAll(cursor, limit) returns the at most limit users of smallest
\* id greater than the cursor, in strictly increasing id order; called
\* again and again from the last id of the previous page it visits every
\* user past the first cursor exactly once and ends with an empty page and
\* no error.
C19_CursorListing ==
    /\ \A k \in 1..Len(lpages) :
          LET c == lpages[k].cursor
              page == lpages[k].users
              got == { page[i] : i \in 1..Len(page) }
              past == { id \in ltable : id > c }
          IN  /\ Len(page) <= llimit
              /\ \A i \in 1..(Len(page) - 1) : page[i] < page[i + 1]
              /\ got \subseteq past
              /\ \A id \in past \ got :
                    Len(page) = llimit /\ \A g \in got : g < id
              /\ k > 1 =>
                    c = lpages[k - 1].users[Len(lpages[k - 1].users)]
    /\ (lpc = "done" /\ lerr = "") =>
          LET all == concat(lpages)
          IN  /\ lpages[Len(lpages)].users = <<>>
              /\ { all[i] : i \in 1..Len(all) }
                    = { id \in ltable : id > lpages[1].cursor }
              /\ \A i, j \in 1..Len(all) : i # j => all[i] # all[j]

\* five users listed three at a time from cursor 0: pages of 3, 2 and 0
C19_Witness ==
    /\ lpc = "done" /\ lerr = ""
    /\ ltable = 1..5 /\ llimit = 3
    /\ lpages = << Page(0, <<1, 2, 3>>), Page(3, <<4, 5>>), Page(5, <<>>) >>

(***************************************************************************)
(* SpecOffset: SummaryDAO.GetList, the offset listing of a session's       *)
(* summaries.                                                              *)
(***************************************************************************)
\* the summaries table, by id: a row is a summary of the session ("live"),
\* a soft-deleted one ("deleted") or a summary of another session
SummaryTables ==
    { [id \in 1..n |-> "live"] : n \in 0..MaxSummaries }
    \cup [1..MixedRows -> {"live", "deleted", "foreign"}]

\* the rows the listing is over: the session's, not soft-deleted
listed(table) == { id \in 1..Len(table) : table[id] = "live" }

\* what GetList returned: whether the store failed, the error, the page
\* and the total count
Listing(failed, err, summaries, total) ==
    [failed |-> failed, err |-> err, summaries |-> summaries, total |-> total]

\* Offset(offset) then Limit(limit) on the ordered rows
OffsetLimit(rows, offset, limit) ==
    IF offset >= Len(rows) THEN <<>>
    ELSE Limit(SubSeq(rows, offset + 1, Len(rows)), limit)

notOffset == <<updVars, searchVars, queryVars, handlerVars, mmrVars, listVars>>

\* page numbers count from 0
GetListZeroBased(pageNumber) ==
    /\ opc = "list"
    /\ Len(oreq.pages) < MaxCalls
    /\ oreq' = [oreq EXCEPT !.pages = Append(@, pageNumber)]
    /\ ores' = Append(ores,
                   Listing(FALSE, "",
                           OffsetLimit(ascending(listed(otable)),
                                       pageNumber * oreq.pageSize, oreq.pageSize),
                           Cardinality(listed(otable))))
    /\ UNCHANGED <<opc, otable>>
    /\ UNCHANGED notOffset

\* GetList(ctx, pageNumber, pageSize): the store fails and the error is
\* returned, or the page of the session's live summaries at offset
\* (pageNumber - 1) * pageSize, with their total count
GetList(pageNumber) ==
    /\ opc = "list"
    /\ Len(oreq.pages) < MaxCalls
    /\ oreq' = [oreq EXCEPT !.pages = Append(@, pageNumber)]
    /\ \/ ores' = Append(ores, Listing(TRUE, "error", <<>>, 0))
       \/ ores' = Append(ores,
                      Listing(FALSE, "",
                              OffsetLimit(ascending(listed(otable)),
                                          (pageNumber - 1) * oreq.pageSize,
                                          oreq.pageSize),
                              Cardinality(listed(otable))))
    /\ UNCHANGED <<opc, otable>>
    /\ UNCHANGED notOffset

InitOffset ==
    /\ UpdateIdle
    /\ SearchIdle
    /\ QueryIdle
    /\ HandlerIdle /\ MMRIdle /\ ListIdle
    /\ opc = "list"
    /\ otable \in SummaryTables
    /\ oreq \in [pageSize : 1..MaxPageSize, pages : {<<>>}]
    /\ ores = <<>>

NextOffset == \E pageNumber \in 1..MaxPage : GetList(pageNumber)

SpecOffset == InitOffset /\ [][NextOffset]_vars

Max2(a, b) == IF a >= b THEN a ELSE b

RECURSIVE hasMalformed(_)

hasMalformed(t) ==
    \/ t.JSONPath # <<>> /\ ~wellFormed(t.JSONPath)
    \/ \E i \in 1..Len(t.And) : hasMalformed(t.And[i])
    \/ \E i \in 1..Len(t.Or) : hasMalformed(t.Or[i])

\* C12: a filter tree with a leaf of malformed path syntax makes the
\* compilation return InvalidQuery before any store fetch: the store is
\* never sent the predicate.
C12_MalformedPathRejected ==
    hasMalformed(jq) =>
        /\ ~qres.fetched
        /\ qres.returned => qres.err = "InvalidQuery"

\* C16: every result of searchMessages belongs to the requested session and
\* is not soft-deleted, whatever the filter tree: an Or branch never widens
\* the match past the session_id and deleted_at conditions.
C16_ResultsInScope ==
    qres.returned =>
        \A r \in qres.rows : r.session_id = qsession /\ ~r.deleted

\* a filter with an Or list has returned rows of the session, and has
\* left out rows of the session that no Or child matches
C16_Witness ==
    /\ qres.returned /\ qres.err = ""
    /\ jq.Or # <<>>
    /\ qres.rows # {}
    /\ \E r \in Messages \ qres.rows : r.session_id = qsession /\ ~r.deleted

\* a list of results is in non-decreasing distance order
byDistance(rows) ==
    \A i \in 1..(Len(rows) - 1) : rows[i].dist <= rows[i + 1].dist

\* a list of results is in recency-descending order
byRecency(rows) ==
    \A i \in 1..(Len(rows) - 1) : rows[i].created_at >= rows[i + 1].created_at

\* C13: Execute returns a non-nil error whenever the fetch fails (probe
\* setting, query build, embedding, scan) and NotFound whenever the query
\* matches no row, whether or not the collection is indexed: it never
\* returns (page, nil) after a failed fetch.
C13_ExecutePropagates ==
    (sq.kind = "documents" /\ sres.returned) => sres.err = serr

\* C14: in searchMessages with a text, a failure to embed the text is
\* returned to the caller and no store fetch is built or executed.
C14_EmbedErrorReturned ==
    (sq.kind = "messages" /\ sq.text # "" /\ dbQuery.nil /\ spc \notin {"start", "build"}) =>
        /\ \A i \in 1..Len(sio) : sio[i].op # "scan"
        /\ sres.returned => sres.err = "failed to embed query"

\* C15: a search with a text returns its results in non-decreasing distance
\* order and a search without text in recency-descending order, for
\* messages and for documents; the filter of valid results keeps the order.
C15_ResultOrdering ==
    (sres.returned /\ sres.err = "") =>
        IF sq.text # "" THEN byDistance(srows) ELSE byRecency(srows)

\* the limit a document search asks for once defaulted
requestedLimit ==
    IF sq.limit <= 0 THEN DefaultDocumentSearchLimit ELSE sq.limit

\* C21: the fetch of documentSearchOperation asks for 2 * limit candidates
\* when withMMR is set and for exactly limit candidates otherwise, limit
\* being the requested limit, or DefaultDocumentSearchLimit when that is
\* not positive.
C21_OverFetch ==
    sq.kind = "documents" =>
        \A i \in 1..Len(sio) :
            sio[i].op = "scan" =>
                sio[i].arg = IF sq.withMMR THEN 2 * requestedLimit
                             ELSE requestedLimit

\* the statement at position k of the log runs inside the transaction
\* opened at position b: on the transaction's connection, before its end
inTx(log, b, k) ==
    /\ b < k
    /\ log[b].op = "begin"
    /\ log[k].on = log[b].on
    /\ \A e \in (b + 1)..(k - 1) : log[e].op \notin {"commit", "rollback"}

\* the scan at position k runs under the probe count: SET LOCAL has been
\* executed before it inside the same transaction
underProbeCount(log, k) ==
    \E b, s \in 1..Len(log) :
        /\ s < k
        /\ log[s].op = "setProbes"
        /\ inTx(log, b, s)
        /\ inTx(log, b, k)

\* C22: for a collection flagged IsIndexed the statement setting the probe
\* count and the fetch run inside the same transaction, on its connection,
\* the setting first, so that every fetch runs under the collection's
\* ProbeCount; for a collection that is not indexed no transaction is
\* opened and no probe parameter is set.
C22_ProbesInTransaction ==
    sq.kind = "documents" =>
        IF sq.isIndexed
        THEN \A k \in 1..Len(sio) :
                 sio[k].op = "scan" => underProbeCount(sio, k)
        ELSE \A k \in 1..Len(sio) : sio[k].op \notin {"begin", "setProbes"}

\* the embedding of the stored row a result row comes from
embeddingOf(r) == (CHOOSE c \in Stored : c.id = r.id).embedding

\* the cosine similarity of a result row to the query (unit vectors)
cosineSimilarity(r) == innerProduct(embeddingOf(r), queryVector)

\* the first of the rows is at least as similar to the query as every
\* other one that has a distance
mostSimilarFirst(rows) ==
    \A i \in 1..Len(rows) :
        (~IsNaN(rows[1].dist) /\ ~IsNaN(rows[i].dist)) =>
            cosineSimilarity(rows[i]) <= cosineSimilarity(rows[1])

\* C23: in a document search with a text the dist column is the cosine
\* distance (1 - cosine similarity) of the stored vector to the query
\* vector, so that with the ascending order the first document returned is
\* the most similar one; a message search ranks by negative inner product
\* and its first result is the most similar message too.
C23_DistanceSemantics ==
    (sres.returned /\ sres.err = "" /\ sq.text # "") =>
        /\ mostSimilarFirst(srows)
        /\ sq.kind = "documents" =>
              \A i \in 1..Len(srows) :
                  ~IsNaN(srows[i].dist) =>
                      srows[i].dist = 1 - cosineSimilarity(srows[i])

\* the shorter list is what is left of the longer one once some of its
\* elements are taken out, the others staying in order
RECURSIVE subsequence(_, _)
subsequence(short, long) ==
    IF short = <<>> THEN TRUE
    ELSE IF long = <<>> THEN FALSE
    ELSE IF Head(short) = Head(long) THEN subsequence(Tail(short), Tail(long))
    ELSE subsequence(short, Tail(long))

\* C24: searchMessages returns every fetched row when the query has no
\* text (metadata only); when the query has a text, with or without a
\* metadata filter, it drops every fetched row whose distance is NaN; what
\* it returns is always a subsequence of the fetched rows, in their order.
C24_NaNFiltering ==
    (sq.kind = "messages" /\ sres.returned /\ sres.err = "") =>
        /\ subsequence(srows, sfetched)
        /\ sq.text = "" => srows = sfetched
        /\ sq.text # "" =>
              srows = SelectSeq(sfetched, LAMBDA r : ~IsNaN(r.dist))

====
